---- MODULE Spec2Model ----
(***************************************************************************)
(* Interview orchestration and evaluation engine.                          *)
(*                                                                         *)
(* The state machine of one InterviewManager (app/ai/interview_logic.py):  *)
(* the stage, the score store, the vacancy bound by start_interview and    *)
(* the last oracle reply, driven by start_interview, process_message,      *)
(* get_final_score and generate_final_evaluation.  The oracle (Gemini) is  *)
(* opaque: every reply is drawn from Replies, and a send may fail.         *)
(*                                                                         *)
(* A reply is modelled by what the three regular expressions of the code   *)
(* can find in its text:                                                   *)
(*   block  - the text between <SCORES> and </SCORES>, as json.loads sees  *)
(*            it (no match / not JSON / JSON that is not an object / an    *)
(*            object with its fields),                                     *)
(*   marker - the digits between <STAGE> and </STAGE> (<<>>: no match),    *)
(*   eval   - the "Overall ...%" and "Resume Fit ...%" style percentages.  *)
(*                                                                         *)
(* The transport handler (app/websocket/interview.py) of one interview id: *)
(* the websocket_endpoint calls of two sockets, each with its own          *)
(* ai_interviewer, the row of the interview and the committed messages.    *)
(* handle_candidate_message is two steps, split at the commit of the       *)
(* candidate's message, so that the handlers of two sockets interleave.    *)
(*                                                                         *)
(* Beside them: the weighting engine on one vacancy, the create_interview  *)
(* requests of one (candidate, vacancy) pair (app/routers/interviews.py)   *)
(* and the rows EvaluationService commits for one interview                *)
(* (app/services/evaluation_service.py), each with a specification of its  *)
(* own.                                                                    *)
(***************************************************************************)
EXTENDS Integers, Sequences, FiniteSets, TLC

\* the fields of one InterviewManager
VARIABLES chat, current_stage, scores, interview_data, last_response

\* the transport handler (app/websocket/interview.py) of one interview id:
\*   active_connections - manager.active_connections[interview_id]
\*   endpoints          - the websocket_endpoint call of each socket: where
\*                        it stands and its ai_interviewer
\*   interview          - the row of the interview in the database
\*   messages           - the committed interview_messages rows, by sender
VARIABLES active_connections, endpoints, interview, messages

\* the services beside the session:
\*   weighting        - the weighting engine at work on one vacancy: the
\*                      vacancy, the rules applied so far, the weights
\*   interviews       - the rows of interviews of one (candidate, vacancy)
\*   requests         - the create_interview requests for that pair: where
\*                      each stands
\*   evaluation_store - what EvaluationService has committed for one interview
VARIABLES weighting, interviews, requests, evaluation_store

session_vars == <<chat, current_stage, scores, interview_data, last_response>>

transport_vars == <<active_connections, endpoints, interview, messages>>

service_vars == <<weighting, interviews, requests, evaluation_store>>

vars == <<chat, current_stage, scores, interview_data, last_response,
          active_connections, endpoints, interview, messages,
          weighting, interviews, requests, evaluation_store>>

-----------------------------------------------------------------------------
(* Bounds of the oracle's replies *)

\* largest digit the oracle writes in a <STAGE> marker
MaxMarker == 5

\* largest number of fields in one <SCORES> object
MaxFields == 1

-----------------------------------------------------------------------------
(* Categories, vacancies *)

Categories == {"resume_fit", "hard_skills", "soft_skills"}

\* the keys a <SCORES> object may carry: the categories and "stage"
Keys == Categories \cup {"stage"}

\* a vacancy, as far as the engine reads it: the three focus flags
Vacancies == [interview_focus_resume_fit : BOOLEAN,
              interview_focus_hard_skills : BOOLEAN,
              interview_focus_soft_skills : BOOLEAN]

-----------------------------------------------------------------------------
(* JSON values of a score block *)

Num(n) == [t |-> "num", v |-> n]
Str    == [t |-> "str", v |-> 0]   \* a string that float() cannot read

\* numbers the oracle may write for a category: below, inside, above [0,100]
ScoreNumbers == {-5, 85, 150}

CategoryValues == {Num(n) : n \in ScoreNumbers} \cup {Str}

\* the value of the "stage" field of a score block
StageFieldValues == {Num(1)}

FieldSets == {S \in SUBSET Keys : Cardinality(S) <= MaxFields}

FieldValues(k) == IF k = "stage" THEN StageFieldValues ELSE CategoryValues

\* the JSON objects of a score block
Objects ==
  UNION {{f \in [S -> CategoryValues \cup StageFieldValues] :
            \A k \in S : f[k] \in FieldValues(k)} : S \in FieldSets}

NoFields == [x \in {} |-> Num(0)]

Blocks == {[kind |-> "absent", fields |-> NoFields],
           [kind |-> "invalid_json", fields |-> NoFields],
           [kind |-> "not_object", fields |-> NoFields]}
            \cup {[kind |-> "object", fields |-> f] : f \in Objects}

Markers == {<< >>} \cup {<<d>> : d \in 0..MaxMarker}

NoBreakdown == [x \in {} |-> 0]

NoEval == [overall |-> << >>, breakdown |-> NoBreakdown]

\* what the "Overall ...%" and "<Category> ...%" patterns find in a reply
EvalTexts == {NoEval,
              [overall |-> <<75>>, breakdown |-> NoBreakdown],
              [overall |-> <<75>>, breakdown |-> [x \in {"resume_fit"} |-> 80]],
              [overall |-> <<150>>, breakdown |-> [x \in {"hard_skills"} |-> 120]]}

\* a reply of the conversation: a score block and a marker, each optional
TurnReplies == [block : Blocks, marker : Markers, eval : {NoEval}]

\* a closing reply: the final evaluation text, with an optional marker
ClosingReplies ==
  [block : {[kind |-> "absent", fields |-> NoFields]}, marker : Markers,
   eval : EvalTexts \ {NoEval}]

Replies == TurnReplies \cup ClosingReplies

-----------------------------------------------------------------------------
(* Python helpers *)

Min2(a, b) == IF b < a THEN b ELSE a

Max2(a, b) == IF b > a THEN b ELSE a

\* float(value): a number converts, a non-numeric string raises ValueError,
\* anything else (None, a list, an object) raises TypeError
FloatError(j) == IF j.t = "str" THEN "ValueError" ELSE "TypeError"

\* dict.update
DictUpdate(d, new) ==
  [k \in DOMAIN d \cup DOMAIN new |-> IF k \in DOMAIN new THEN new[k] ELSE d[k]]

RECURSIVE DigitsToInt(_)
\* int(match.group(1)) on the digits of a marker
DigitsToInt(ds) ==
  IF ds = << >> THEN 0
  ELSE 10 * DigitsToInt(SubSeq(ds, 1, Len(ds) - 1)) + ds[Len(ds)]

RECURSIVE SumOver(_, _)
SumOver(f, S) ==
  IF S = {} THEN 0
  ELSE LET k == CHOOSE x \in S : TRUE IN f[k] + SumOver(f, S \ {k})

-----------------------------------------------------------------------------
(* Scoring and stage logic *)

\* the clamp without its upper bound
clamp_no_upper(value) == Max2(0, value)

\* max(0, min(100, float(value)))
clamp(value) == Max2(0, Min2(100, value))

NoScores == [x \in {} |-> 0]

\* _extract_scores: None, a dict, or an exception that is not caught
extract_scores(response) ==
  LET b == response.block
      f == b.fields
      bad == {k \in DOMAIN f \cap Categories : f[k].t # "num"}
  IN  IF b.kind = "absent" \/ b.kind = "invalid_json"
        THEN [tag |-> "None", dict |-> NoScores, exc |-> "none"]
      ELSE IF b.kind = "not_object"
        THEN [tag |-> "raise", dict |-> NoScores, exc |-> "AttributeError"]
      ELSE IF bad # {}
        THEN [tag |-> "raise", dict |-> NoScores,
              exc |-> FloatError(f[CHOOSE k \in bad : TRUE])]
      ELSE [tag |-> "dict",
            dict |-> [k \in DOMAIN f |->
                        IF k \in Categories THEN clamp(f[k].v) ELSE f[k].v],
            exc |-> "none"]

\* _extract_stage: << >> for None, <<n>> for the integer n
extract_stage(response) ==
  IF response.marker = << >> THEN << >> ELSE <<DigitsToInt(response.marker)>>

\* the heuristic written as three ifs in a row: one turn can run through them
update_stage_cascade(response, sc, cur) ==
  LET stage == extract_stage(response)
      s1 == IF sc["resume_fit"] > 0 /\ cur = 1 THEN 2 ELSE cur
      s2 == IF sc["hard_skills"] > 0 /\ s1 = 2 THEN 3 ELSE s1
      s3 == IF sc["soft_skills"] > 0 /\ s2 = 3 THEN 4 ELSE s2
  IN  IF stage # << >> /\ stage[1] # 0 THEN stage[1] ELSE s3

\* the last heuristic step tested with >= : it moves on from FINISHED as well
update_stage_past_finished(response, sc, cur) ==
  LET stage == extract_stage(response)
  IN  IF stage # << >> /\ stage[1] # 0 THEN stage[1]
      ELSE IF sc["resume_fit"] > 0 /\ cur = 1 THEN 2
      ELSE IF sc["hard_skills"] > 0 /\ cur = 2 THEN 3
      ELSE IF sc["soft_skills"] > 0 /\ cur >= 3 THEN cur + 1
      ELSE cur

\* a variant without the heuristic: only a marker moves the stage
update_stage_marker_only(response, sc, cur) ==
  LET stage == extract_stage(response)
  IN  IF stage # << >> /\ stage[1] # 0 THEN stage[1] ELSE cur

\* _update_stage: the stage after the turn, from the reply, the score store
\* and the stage before
update_stage(response, sc, cur) ==
  LET stage == extract_stage(response)
  IN  IF stage # << >> /\ stage[1] # 0 THEN stage[1]
      ELSE IF sc["resume_fit"] > 0 /\ cur = 1 THEN 2
      ELSE IF sc["hard_skills"] > 0 /\ cur = 2 THEN 3
      ELSE IF sc["soft_skills"] > 0 /\ cur = 3 THEN 4
      ELSE cur

-----------------------------------------------------------------------------
(* Final evaluation *)

\* what a call hands back to its caller: a returned value or an exception
Returned(op) ==
  [op |-> op, exc |-> "none", error |-> "", overall |-> << >>,
   breakdown |-> NoScores, ai_confidence |-> 0]

Raised(op, e) == [Returned(op) EXCEPT !.exc = e]

ErrorValue(op, msg) == [Returned(op) EXCEPT !.error = msg]

\* enabled_stages of get_final_score
enabled_stages(vacancy) ==
  {c \in Categories :
     \/ c = "resume_fit" /\ vacancy.interview_focus_resume_fit
     \/ c = "hard_skills" /\ vacancy.interview_focus_hard_skills
     \/ c = "soft_skills" /\ vacancy.interview_focus_soft_skills}

\* a variant with equal weights
weights_equal == [resume_fit |-> 3, hard_skills |-> 3, soft_skills |-> 3]

\* self.weights, in tenths; get_final_score does not read it
weights == [resume_fit |-> 3, hard_skills |-> 4, soft_skills |-> 3]

\* the weighted sum of the enabled scores without renormalization, in tenths
overall_score_unnormalized(sc, enabled) ==
  SumOver([c \in Categories |-> weights[c] * sc[c]], enabled)

\* the mean over every category, the disabled ones too
overall_score_every_category(sc, enabled) ==
  (20 * SumOver(sc, Categories) + Cardinality(Categories))
    \div (2 * Cardinality(Categories))

\* round(sum / len, 1), in tenths; integer scores never tie
overall_score(sc, enabled) ==
  IF enabled = {} THEN 0
  ELSE (20 * SumOver(sc, enabled) + Cardinality(enabled))
         \div (2 * Cardinality(enabled))

\* the readiness test over every category, the disabled ones too
all_scored_every_category(sc, enabled) == \A c \in Categories : sc[c] > 0

\* the readiness test with any() for all()
all_scored_any(sc, enabled) == enabled = {} \/ \E c \in enabled : sc[c] > 0

\* all(v > 0 for v in enabled_scores.values())
all_scored(sc, enabled) == \A c \in enabled : sc[c] > 0

\* get_final_score on the score store sc and the interview data
final_score(sc, data) ==
  IF data = << >>
    THEN ErrorValue("get_final_score", "Interview data not available")
  ELSE LET enabled == enabled_stages(data[1])
       IN  IF ~all_scored(sc, enabled)
             THEN ErrorValue("get_final_score", "Interview not completed")
           ELSE [Returned("get_final_score") EXCEPT
                   !.overall = <<overall_score(sc, enabled)>>,
                   !.breakdown = sc]

\* get_final_score, on the current state
get_final_score == final_score(scores, interview_data)

\* _extract_final_evaluation: << >> for None, <<e>> for the evaluation
extract_final_evaluation(e) ==
  IF e.overall # << >> /\ DOMAIN e.breakdown # {}
        THEN <<[overall_relevance |-> 10 * e.overall[1], breakdown |-> e.breakdown]>>
      ELSE << >>

\* generate_final_evaluation of a session whose last reply is last, whose
\* scores are sc and whose vacancy is data
final_evaluation(last, sc, data) ==
  LET ai == IF last # << >>
              THEN extract_final_evaluation(last[1]) ELSE << >>
      final_data == final_score(sc, data)
  IN  IF ai # << >>
        THEN [Returned("generate_final_evaluation") EXCEPT
                !.overall = <<ai[1].overall_relevance>>,
                !.breakdown = ai[1].breakdown,
                !.ai_confidence = 9]
      ELSE IF final_data.error # ""
        THEN [final_data EXCEPT !.op = "generate_final_evaluation"]
      ELSE [final_data EXCEPT !.op = "generate_final_evaluation",
                              !.ai_confidence = 8]

\* generate_final_evaluation, on the current state
generate_final_evaluation ==
  final_evaluation(last_response, scores, interview_data)

-----------------------------------------------------------------------------
(* The weighting engine *)

\* most required skills of a vacancy
MaxSkills == 6

\* a vacancy, as far as the weighting reads it: the number of required
\* skills, the work format and the employment type
WeightedVacancies ==
  [required_skills : 0..MaxSkills, work_schedule : {"full-day", "remote"},
   employment_type : {"full-time", "internship"}]

\* self.weights, in hundredths
static_weights == [c \in Categories |-> 10 * weights[c]]

\* the n-th rule of the dynamic policy: the weights it sets for vacancy v
\* (<< >>: it does not fire).  The tests read the weights of an evaluation
\* and the tables keep an adaptive weight, but the code that derives them is
\* not in the source tree.
dynamic_rule(n, v) ==
  IF n = 1 /\ v.required_skills > 5
    THEN [hard_skills |-> 50, resume_fit |-> 25, soft_skills |-> 25]
  ELSE IF n = 2 /\ v.work_schedule = "remote"
    THEN [resume_fit |-> 20, soft_skills |-> 40]
  ELSE IF n = 3 /\ v.employment_type = "internship"
    THEN [hard_skills |-> 30, soft_skills |-> 40]
  ELSE << >>

\* one rule applied to the weights w
apply_rule(n, v, w) == DictUpdate(w, dynamic_rule(n, v))

\* the weights of vacancy v under the dynamic policy
dynamic_weights(v) ==
  apply_rule(3, v, apply_rule(2, v, apply_rule(1, v, static_weights)))

\* the weighting engine at rest
NoWeighting == [vacancy |-> << >>, rule |-> 0, weights |-> static_weights]

\* the weighting of vacancy v begins from the static weights
BeginWeights(v) ==
  /\ weighting.vacancy = << >>
  /\ weighting' = [vacancy |-> <<v>>, rule |-> 0, weights |-> static_weights]
  /\ UNCHANGED <<session_vars, transport_vars>>
  /\ UNCHANGED <<interviews, requests, evaluation_store>>

\* the next rule is applied
ApplyRule ==
  /\ weighting.vacancy # << >>
  /\ weighting.rule < 3
  /\ weighting' =
       [weighting EXCEPT
          !.rule = @ + 1,
          !.weights = apply_rule(weighting.rule + 1, weighting.vacancy[1], @)]
  /\ UNCHANGED <<session_vars, transport_vars>>
  /\ UNCHANGED <<interviews, requests, evaluation_store>>

NextWeights ==
  \/ \E v \in WeightedVacancies : BeginWeights(v)
  \/ ApplyRule

-----------------------------------------------------------------------------
(* create_interview *)

\* most create_interview requests for the (candidate, vacancy) pair
MaxRequests == 4

Requests == 1..MaxRequests

\* the query for an existing interview of the pair, with n rows in the table:
\* none lets the request go on, one is answered 400 'Interview already
\* exists for this candidate and vacancy', more make scalar_one_or_none raise
check_existing(n) ==
  IF n = 0 THEN "checked" ELSE IF n = 1 THEN "rejected" ELSE "error"

\* the candidate and the vacancy are found; the request waits for its next
\* query
VerifyRequest(r) ==
  /\ requests[r] = "idle"
  /\ requests' = [requests EXCEPT ![r] = "verified"]
  /\ UNCHANGED <<session_vars, transport_vars>>
  /\ UNCHANGED <<weighting, interviews, evaluation_store>>

\* the query for an existing interview returns
CheckExisting(r) ==
  /\ requests[r] = "verified"
  /\ requests' = [requests EXCEPT ![r] = check_existing(interviews)]
  /\ UNCHANGED <<session_vars, transport_vars>>
  /\ UNCHANGED <<weighting, interviews, evaluation_store>>

\* db.add and db.commit of the new interview; the table has no unique
\* constraint on (candidate_id, vacancy_id)
InsertInterview(r) ==
  /\ requests[r] = "checked"
  /\ interviews' = interviews + 1
  /\ requests' = [requests EXCEPT ![r] = "created"]
  /\ UNCHANGED <<session_vars, transport_vars>>
  /\ UNCHANGED <<weighting, evaluation_store>>

NextCreate ==
  \/ \E r \in Requests : VerifyRequest(r)
  \/ \E r \in Requests : CheckExisting(r)
  \/ \E r \in Requests : InsertInterview(r)

-----------------------------------------------------------------------------
(* EvaluationService *)

\* most messages of a chat_history
MaxHistory == 2

\* most evaluation summaries kept in the model
MaxSaved == 2

\* nothing committed by EvaluationService
EmptyStore ==
  [chat_messages |-> 0, evaluation_scores |-> 0, evaluation_summaries |-> 0,
   final_score |-> FALSE]

\* a chat_history: each message either fits the enums MessageSender,
\* InterviewStage and MessageType or does not
Histories ==
  UNION {[1..n -> {"valid", "invalid"}] : n \in 0..MaxHistory}

\* the breakdown of an ai_evaluation
Breakdowns == {NoBreakdown} \cup [Categories -> {0, 85}]

\* the rows save_evaluation_scores adds: one per category with a score > 0
score_rows(breakdown) ==
  Cardinality({c \in DOMAIN breakdown \cap Categories : breakdown[c] > 0})

\* an insert for an interview id that has no row fails at its commit when
\* the database enforces the foreign key
insert_fails(found, foreign_keys) == ~found /\ foreign_keys

RECURSIVE save_chat_messages(_, _, _, _)
\* the loop over chat_history from message i on: every save_chat_message
\* commits its row; an exception ends the loop
save_chat_messages(store, history, i, failing) ==
  IF i > Len(history) THEN [success |-> TRUE, store |-> store]
  ELSE IF history[i] = "invalid" \/ failing
    THEN [success |-> FALSE, store |-> store]
  ELSE save_chat_messages([store EXCEPT !.chat_messages = @ + 1],
                          history, i + 1, failing)

\* save_complete_evaluation: the chat history, the scores, the summary and
\* the interview's final data, each committed by its own helper; the except
\* branch rolls back what is not yet committed and returns success False
save_complete_evaluation(store, breakdown, history, found, foreign_keys) ==
  LET failing == insert_fails(found, foreign_keys)
      saved == save_chat_messages(store, history, 1, failing)
      scored == [saved.store EXCEPT
                   !.evaluation_scores = @ + score_rows(breakdown)]
      summarized == [scored EXCEPT !.evaluation_summaries = @ + 1]
  IN  IF ~saved.success THEN saved
      ELSE IF score_rows(breakdown) > 0 /\ failing
        THEN [success |-> FALSE, store |-> saved.store]
      ELSE IF failing THEN [success |-> FALSE, store |-> scored]
      ELSE IF ~found THEN [success |-> FALSE, store |-> summarized]
      ELSE [success |-> TRUE,
            store |-> [summarized EXCEPT !.final_score = TRUE]]

\* the store stays within the bounds of the model
Storable(store) ==
  /\ store.chat_messages <= MaxHistory * MaxSaved
  /\ store.evaluation_scores <= 3 * MaxSaved
  /\ store.evaluation_summaries <= MaxSaved

SaveCompleteEvaluation(breakdown, history, found, foreign_keys) ==
  /\ \E after \in {save_complete_evaluation(evaluation_store, breakdown,
                                              history, found, foreign_keys)} :
       /\ Storable(after.store)
       /\ evaluation_store' = after.store
  /\ UNCHANGED <<session_vars, transport_vars>>
  /\ UNCHANGED <<weighting, interviews, requests>>

NextEvaluation ==
  \E b \in Breakdowns, h \in Histories, found \in BOOLEAN,
     foreign_keys \in BOOLEAN :
    SaveCompleteEvaluation(b, h, found, foreign_keys)

-----------------------------------------------------------------------------
(* The session *)

\* the websocket connections to the interview id
Sockets == {"ws1", "ws2"}

\* a websocket_endpoint call that is not running: no ai_interviewer
NoEndpoint == [pc |-> "closed", ai |-> << >>]

\* a new row of interviews: the column defaults
NewInterview ==
  [status |-> "pending", current_stage |-> "resume_fit", final_score |-> << >>]

Init ==
  /\ chat = FALSE
  /\ current_stage = 1
  /\ scores = [c \in Categories |-> 0]
  /\ interview_data = << >>
  /\ last_response = << >>
  /\ active_connections = << >>
  /\ endpoints = [w \in Sockets |-> NoEndpoint]
  /\ interview = NewInterview
  /\ messages = << >>
  /\ weighting = NoWeighting
  /\ interviews = 0
  /\ requests = [r \in Requests |-> "idle"]
  /\ evaluation_store = EmptyStore

\* start_interview: binds the vacancy, opens the chat and sends the system
\* prompt; the oracle's first reply is handed back, not parsed.  When the send
\* raises, the vacancy and the chat are already set.
start_interview(vacancy) ==
  [interview_data |-> <<vacancy>>, chat |-> TRUE]

StartInterview(vacancy, reply) ==
  /\ ~chat
  /\ interview_data' = start_interview(vacancy).interview_data
  /\ chat' = start_interview(vacancy).chat
  /\ UNCHANGED <<current_stage, scores, last_response>>
  /\ UNCHANGED <<transport_vars, service_vars>>

\* start_interview when the send of the system prompt raises
StartInterviewOracleFails(vacancy) ==
  /\ ~chat
  /\ interview_data' = start_interview(vacancy).interview_data
  /\ chat' = start_interview(vacancy).chat
  /\ UNCHANGED <<current_stage, scores, last_response>>
  /\ UNCHANGED <<transport_vars, service_vars>>

\* process_message before start_interview: raises, nothing is touched
ProcessMessageNotInitialized ==
  /\ ~chat
  /\ UNCHANGED vars

\* the failed send that has already forgotten the last reply
process_message_oracle_fails_clears_reply ==
  [last_response |-> << >>, scores |-> scores,
   current_stage |-> current_stage,
   result |-> Raised("process_message", "OracleError")]

\* process_message when send_message_async raises: the exception leaves the
\* method before any field is assigned
process_message_oracle_fails ==
  [last_response |-> last_response, scores |-> scores,
   current_stage |-> current_stage,
   result |-> Raised("process_message", "OracleError")]

ProcessMessageOracleFails ==
  /\ chat
  /\ \E after \in {process_message_oracle_fails} :
         /\ last_response' = after.last_response
         /\ scores' = after.scores
         /\ current_stage' = after.current_stage
  /\ UNCHANGED <<chat, interview_data>>
  /\ UNCHANGED <<transport_vars, service_vars>>

\* process_message with the oracle's reply: the fields it leaves behind and
\* what it hands back
process_message(reply) ==
  LET extracted == extract_scores(reply)
      updated == IF extracted.tag = "dict" /\ DOMAIN extracted.dict # {}
                   THEN DictUpdate(scores, extracted.dict)
                   ELSE scores
  IN  IF extracted.tag = "raise"
        THEN [last_response |-> <<reply.eval>>, scores |-> scores,
              current_stage |-> current_stage,
              result |-> Raised("process_message", extracted.exc)]
      ELSE [last_response |-> <<reply.eval>>, scores |-> updated,
            current_stage |-> update_stage(reply, updated, current_stage),
            result |-> Returned("process_message")]

ProcessMessage(reply) ==
  /\ chat
  /\ \E after \in {process_message(reply)} :
         /\ last_response' = after.last_response
         /\ scores' = after.scores
         /\ current_stage' = after.current_stage
  /\ UNCHANGED <<chat, interview_data>>
  /\ UNCHANGED <<transport_vars, service_vars>>

\* get_final_score and generate_final_evaluation read the session only
GetFinalScore ==
  /\ get_final_score.op = "get_final_score"
  /\ UNCHANGED vars

GenerateFinalEvaluation ==
  /\ generate_final_evaluation.op = "generate_final_evaluation"
  /\ UNCHANGED vars

Next ==
  \/ \E v \in Vacancies, r \in Replies : StartInterview(v, r)
  \/ \E v \in Vacancies : StartInterviewOracleFails(v)
  \/ ProcessMessageNotInitialized
  \/ ProcessMessageOracleFails
  \/ \E r \in Replies : ProcessMessage(r)
  \/ GetFinalScore
  \/ GenerateFinalEvaluation

Spec == Init /\ [][Next]_vars

\* the vacancy with the focus flags left at their column defaults
DefaultVacancy ==
  [interview_focus_resume_fit |-> TRUE,
   interview_focus_hard_skills |-> FALSE,
   interview_focus_soft_skills |-> FALSE]

\* the session of an interview for the default vacancy: the turns do not read
\* the vacancy, so their properties are checked on this one
NextDefaultVacancy ==
  \/ \E r \in Replies : StartInterview(DefaultVacancy, r)
  \/ StartInterviewOracleFails(DefaultVacancy)
  \/ ProcessMessageNotInitialized
  \/ ProcessMessageOracleFails
  \/ \E r \in Replies : ProcessMessage(r)
  \/ GetFinalScore
  \/ GenerateFinalEvaluation

SpecDefaultVacancy == Init /\ [][NextDefaultVacancy]_vars

-----------------------------------------------------------------------------
(* The transport handler *)

\* most rows of interview_messages
MaxMessages == 5

\* the vacancy of the interview the sockets connect to
TransportVacancy == DefaultVacancy

\* what the oracle answers in the handled turns: a score for resume_fit
\* without a marker, or the marker 4 without a score
AnswerReplies ==
  {r \in TurnReplies :
     \/ /\ r.marker = << >>
        /\ r.block = [kind |-> "object",
                      fields |-> [k \in {"resume_fit"} |-> Num(85)]]
     \/ /\ r.marker = <<4>>
        /\ r.block.kind = "absent"}

\* the response dict the handler reads: "stage_change" and
\* "interview_complete"
Responses ==
  [stage_change : {<< >>, <<"hard_skills">>, <<"finished">>},
   interview_complete : BOOLEAN]

\* InterviewAI(): the ai_interviewer of a new connection
NewSession == [current_stage |-> 1, scores |-> [c \in Categories |-> 0]]

\* ai_interviewer.generate_next_question(): InterviewManager defines no such
\* method, so the call of the source raises AttributeError (ConnectFails);
\* the method is taken to hand back a question
generate_next_question == [exc |-> "none", message |-> "question"]

\* ai_interviewer.process_answer(message, stage): InterviewManager defines no
\* such method, so the call of the source raises AttributeError
\* (HandleOracleFails); the method is taken to run the turn on the session
\* (oracle, parser, score store, stage) as process_message does
process_answer(ai, reply) ==
  LET extracted == extract_scores(reply)
      updated == IF extracted.tag = "dict" /\ DOMAIN extracted.dict # {}
                   THEN DictUpdate(ai.scores, extracted.dict)
                   ELSE ai.scores
  IN  IF extracted.tag = "raise"
        THEN [ai |-> ai, exc |-> extracted.exc]
      ELSE [ai |-> [current_stage |->
                      update_stage(reply, updated, ai.current_stage),
                    scores |-> updated],
            exc |-> "none"]

\* the endpoints inside handle_candidate_message, between the commit of the
\* candidate's message and the end of the oracle step
InFlight == {w \in Sockets : endpoints[w].pc \in {"answering", "abandoned"}}

\* there is room for n more rows, counting the bot rows of the turns in flight
Room(n) == Len(messages) + n + Cardinality(InFlight) <= MaxMessages

\* manager.connect
connect(w) == <<w>>

\* manager.disconnect: drops the entry of the interview id, whoever holds it
disconnect(w) == << >>

\* the candidate's message is added and committed
save_candidate_message(rows) == Append(rows, "candidate")

\* the except branch of handle_candidate_message: an error message is sent,
\* nothing is rolled back
oracle_step_fails(w) ==
  [endpoint |-> [endpoints[w] EXCEPT !.pc = "open"], interview |-> interview,
   messages |-> messages, sent |-> "error"]

\* handle_candidate_message from receive to return when the oracle step fails
handle_failed_turn(w) ==
  [endpoint |-> endpoints[w], interview |-> interview,
   messages |-> save_candidate_message(messages), sent |-> "error"]

\* the evaluation the handler asks the session for on completion: the reply
\* of the turn holds no evaluation text, so it is computed from the scores
session_evaluation(ai) == final_score(ai.scores, <<TransportVacancy>>)

\* the try branch of handle_candidate_message: the bot's row, the stage
\* change, the completion with the final evaluation, the send and the commit
handle_answer(w, reply, response) ==
  LET ai == process_answer(endpoints[w].ai, reply).ai
      staged == IF response.stage_change # << >>
                  THEN [interview EXCEPT
                          !.current_stage = response.stage_change[1]]
                  ELSE interview
  IN  [endpoint |-> [pc |-> "open", ai |-> ai],
       interview |->
         IF response.interview_complete
           THEN [staged EXCEPT !.status = "completed",
                               !.final_score = session_evaluation(ai).overall]
           ELSE staged,
       messages |-> Append(messages, "bot"),
       sent |-> IF response.interview_complete
                  THEN "interview_complete" ELSE "message"]

\* a websocket_endpoint call that has reached its message loop
OpenEndpoint == [pc |-> "open", ai |-> NewSession]

\* the endpoint of socket w after a disconnect and a new connection to the
\* interview id
reconnect(w) == OpenEndpoint

\* a variant that builds the ai_interviewer before the lookups
connect_not_found_session_first(w) ==
  [active_connections |-> connect(w), endpoint |-> OpenEndpoint,
   interview |-> interview, messages |-> messages, sent |-> "error"]

\* websocket_endpoint from the accept to the return when the interview, the
\* candidate, the vacancy or the resume is not found: the socket is
\* registered, an error is sent and the endpoint returns before InterviewAI()
\* and before the message loop
connect_not_found(w) ==
  [active_connections |-> connect(w), endpoint |-> NoEndpoint,
   interview |-> interview, messages |-> messages, sent |-> "error"]

\* update_interview (PUT /interviews/{id}): the employer marks a pending
\* interview as in progress
UpdateInterview ==
  /\ interview.status = "pending"
  /\ interview' = [interview EXCEPT !.status = "in_progress"]
  /\ UNCHANGED <<active_connections, endpoints, messages>>
  /\ UNCHANGED <<session_vars, service_vars>>

\* websocket_endpoint when the candidate, the vacancy or the resume is not
\* found: an error is sent and the endpoint returns; manager.disconnect is
\* not called
ConnectNotFound(w) ==
  /\ endpoints[w].pc = "closed"
  /\ \E after \in {connect_not_found(w)} :
       /\ active_connections' = after.active_connections
       /\ endpoints' = [endpoints EXCEPT ![w] = after.endpoint]
       /\ interview' = after.interview
       /\ messages' = after.messages
  /\ UNCHANGED <<session_vars, service_vars>>

\* websocket_endpoint when an exception ends it before the message loop: the
\* database session (as get_db is written, `async with get_db()` raises), the
\* oracle in start_interview, generate_next_question; what start_interview
\* assigned to the row is not committed
ConnectFails(w) ==
  /\ endpoints[w].pc = "closed"
  /\ active_connections' = disconnect(w)
  /\ UNCHANGED <<endpoints, interview, messages>>
  /\ UNCHANGED <<session_vars, service_vars>>

\* websocket_endpoint for a pending interview: start_interview marks it in
\* progress, commits the first question and the message loop begins
ConnectStarts(w) ==
  /\ endpoints[w].pc = "closed"
  /\ interview.status = "pending"
  /\ generate_next_question.exc = "none"
  /\ Room(1)
  /\ active_connections' = connect(w)
  /\ endpoints' = [endpoints EXCEPT ![w] = OpenEndpoint]
  /\ interview' = [interview EXCEPT !.status = "in_progress",
                                    !.current_stage = "resume_fit"]
  /\ messages' = Append(messages, "bot")
  /\ UNCHANGED <<session_vars, service_vars>>

\* websocket_endpoint for an interview that is not pending: a new
\* ai_interviewer, the greeting, the message loop
ConnectResumes(w) ==
  /\ endpoints[w].pc = "closed"
  /\ interview.status # "pending"
  /\ active_connections' = connect(w)
  /\ endpoints' = [endpoints EXCEPT ![w] = OpenEndpoint]
  /\ UNCHANGED <<interview, messages>>
  /\ UNCHANGED <<session_vars, service_vars>>

\* WebSocketDisconnect in receive_json: the endpoint ends and its
\* ai_interviewer with it
Disconnect(w) ==
  /\ endpoints[w].pc = "open"
  /\ active_connections' = disconnect(w)
  /\ endpoints' = [endpoints EXCEPT ![w] = NoEndpoint]
  /\ UNCHANGED <<interview, messages>>
  /\ UNCHANGED <<session_vars, service_vars>>

\* handle_candidate_message with an empty message: an error is sent
HandleEmpty(w) ==
  /\ endpoints[w].pc = "open"
  /\ UNCHANGED vars

\* handle_candidate_message up to the commit of the candidate's message
HandleSave(w) ==
  /\ endpoints[w].pc = "open"
  /\ Room(2)
  /\ messages' = save_candidate_message(messages)
  /\ endpoints' = [endpoints EXCEPT ![w].pc = "answering"]
  /\ UNCHANGED <<active_connections, interview>>
  /\ UNCHANGED <<session_vars, service_vars>>

\* the oracle step raises
HandleOracleFails(w) ==
  /\ endpoints[w].pc = "answering"
  /\ \E after \in {oracle_step_fails(w)} :
       /\ endpoints' = [endpoints EXCEPT ![w] = after.endpoint]
       /\ interview' = after.interview
       /\ messages' = after.messages
  /\ UNCHANGED active_connections
  /\ UNCHANGED <<session_vars, service_vars>>

\* the oracle step answers
HandleAnswer(w, reply, response) ==
  /\ endpoints[w].pc = "answering"
  /\ process_answer(endpoints[w].ai, reply).exc = "none"
  /\ \E after \in {handle_answer(w, reply, response)} :
       /\ endpoints' = [endpoints EXCEPT ![w] = after.endpoint]
       /\ interview' = after.interview
       /\ messages' = after.messages
  /\ UNCHANGED active_connections
  /\ UNCHANGED <<session_vars, service_vars>>

\* the handler of socket w after its client has gone during the oracle step
\* and the step has raised: the error send meets the ended connection, the
\* endpoint ends, nothing was assigned
abandoned_turn_fails(w) ==
  [ai |-> endpoints[w].ai, endpoint |-> NoEndpoint,
   active_connections |-> disconnect(w),
   interview |-> interview, messages |-> messages]

\* the handler of socket w after its client has gone during the oracle step
\* and the step has answered: nothing tests the connection, so the session
\* takes the turn and the rows are assigned; send_json on the ended
\* connection either raises (the commit is skipped, the endpoint ends) or
\* passes (the commit runs, the next receive ends the endpoint)
handle_answer_abandoned(w, reply, response, send_passes) ==
  LET after == handle_answer(w, reply, response)
  IN  [ai |-> after.endpoint.ai, endpoint |-> NoEndpoint,
       active_connections |-> disconnect(w),
       interview |-> IF send_passes THEN after.interview ELSE interview,
       messages |-> IF send_passes THEN after.messages ELSE messages]

\* the client's connection ends while process_answer is awaited; the handler
\* is not cancelled and receive_json is not being awaited
ClientLeaves(w) ==
  /\ endpoints[w].pc = "answering"
  /\ endpoints' = [endpoints EXCEPT ![w].pc = "abandoned"]
  /\ UNCHANGED <<active_connections, interview, messages>>
  /\ UNCHANGED <<session_vars, service_vars>>

\* the oracle step of an abandoned turn raises
AbandonedOracleFails(w) ==
  /\ endpoints[w].pc = "abandoned"
  /\ \E after \in {abandoned_turn_fails(w)} :
       /\ endpoints' = [endpoints EXCEPT ![w] = after.endpoint]
       /\ active_connections' = after.active_connections
       /\ interview' = after.interview
       /\ messages' = after.messages
  /\ UNCHANGED <<session_vars, service_vars>>

\* the oracle step of an abandoned turn answers
AbandonedAnswer(w, reply, response, send_passes) ==
  /\ endpoints[w].pc = "abandoned"
  /\ process_answer(endpoints[w].ai, reply).exc = "none"
  /\ \E after \in {handle_answer_abandoned(w, reply, response, send_passes)} :
       /\ endpoints' = [endpoints EXCEPT ![w] = after.endpoint]
       /\ active_connections' = after.active_connections
       /\ interview' = after.interview
       /\ messages' = after.messages
  /\ UNCHANGED <<session_vars, service_vars>>

NextTransport ==
  \/ UpdateInterview
  \/ \E w \in Sockets : ConnectNotFound(w)
  \/ \E w \in Sockets : ConnectFails(w)
  \/ \E w \in Sockets : ConnectStarts(w)
  \/ \E w \in Sockets : ConnectResumes(w)
  \/ \E w \in Sockets : Disconnect(w)
  \/ \E w \in Sockets : HandleEmpty(w)
  \/ \E w \in Sockets : HandleSave(w)
  \/ \E w \in Sockets : HandleOracleFails(w)
  \/ \E w \in Sockets, r \in AnswerReplies, a \in Responses :
       HandleAnswer(w, r, a)
  \/ \E w \in Sockets : ClientLeaves(w)
  \/ \E w \in Sockets : AbandonedOracleFails(w)
  \/ \E w \in Sockets, r \in AnswerReplies, a \in Responses,
        send_passes \in BOOLEAN :
       AbandonedAnswer(w, r, a, send_passes)

SpecTransport == Init /\ [][NextTransport]_vars

-----------------------------------------------------------------------------
(* The services on their own *)

\* the weighting engine
SpecWeights == Init /\ [][NextWeights]_vars

\* the create_interview requests of one (candidate, vacancy) pair
SpecCreate == Init /\ [][NextCreate]_vars

\* the calls of save_complete_evaluation for one interview
SpecEvaluation == Init /\ [][NextEvaluation]_vars

-----------------------------------------------------------------------------
(* Vocabulary of the properties *)

\* the reply carries <STAGE>N</STAGE>
HasMarker(r) == r.marker # << >>

\* the score block is there and is not a JSON object of numbers
Malformed(b) ==
  \/ b.kind \in {"invalid_json", "not_object"}
  \/ /\ b.kind = "object"
     /\ \E k \in DOMAIN b.fields \cap Categories : b.fields[k].t # "num"

\* the bound of [0,100] nearest to n
NearestBound(n) == IF n < 0 THEN 0 ELSE IF n > 100 THEN 100 ELSE n

\* the category a stage asks about
StageCategory(s) ==
  IF s = 1 THEN "resume_fit" ELSE IF s = 2 THEN "hard_skills" ELSE "soft_skills"

\* the vacancy's focus flag of category c
FocusFlag(v, c) ==
  IF c = "resume_fit" THEN v.interview_focus_resume_fit
  ELSE IF c = "hard_skills" THEN v.interview_focus_hard_skills
  ELSE v.interview_focus_soft_skills

\* every category enabled in the vacancy has a score > 0
Ready ==
  /\ interview_data # << >>
  /\ \A c \in Categories : FocusFlag(interview_data[1], c) => scores[c] > 0

\* the last reply holds an overall percentage and a category percentage
EvaluationText ==
  /\ last_response # << >>
  /\ last_response[1].overall # << >>
  /\ DOMAIN last_response[1].breakdown # {}

\* the score stores over the three categories
ScoreStores == [Categories -> {clamp(n) : n \in ScoreNumbers}]

-----------------------------------------------------------------------------
(* The session of an oracle that writes no markers *)

\* the replies without a stage marker
MarkerlessReplies == {r \in Replies : ~HasMarker(r)}

\* the replies without a marker whose score block gives the category of
\* stage s a number > 0
ProgressReplies(s) ==
  {r \in MarkerlessReplies :
     /\ r.block.kind = "object"
     /\ DOMAIN r.block.fields = {StageCategory(s)}
     /\ r.block.fields[StageCategory(s)].t = "num"
     /\ r.block.fields[StageCategory(s)].v > 0}

\* a turn whose reply scores the category of the current stage
ScoringTurn ==
  /\ current_stage \in 1..3
  /\ \E r \in ProgressReplies(current_stage) : ProcessMessage(r)

NextProgress ==
  \/ \E r \in MarkerlessReplies : StartInterview(DefaultVacancy, r)
  \/ ProcessMessageOracleFails
  \/ \E r \in MarkerlessReplies : ProcessMessage(r)
  \/ ScoringTurn

\* the oracle is fair: at each stage it eventually delivers a score for the
\* category of the stage
SpecProgress == Init /\ [][NextProgress]_vars /\ WF_vars(ScoringTurn)

-----------------------------------------------------------------------------
(* Properties *)

\* C1: in every reachable state each of the three category scores is a
\* number in [0,100], and a turn whose score block gives a category a number
\* outside [0,100] stores the nearest bound for it (a number inside is
\* stored as it is).
C1_ScoresWithinBounds ==
  /\ \A c \in Categories : scores[c] \in 0..100
  /\ chat =>
       \A r \in Replies :
         (r.block.kind = "object" /\ ~Malformed(r.block)) =>
           \A after \in {process_message(r)} :
             \A c \in DOMAIN r.block.fields \cap Categories :
               after.scores[c] = NearestBound(r.block.fields[c].v)

\* a score of 150 was stored as 100 and a score of 85 as 85
C1_Witness == scores["resume_fit"] = 100 /\ scores["soft_skills"] = 85

\* C2: parsing a reply never raises: for every reply, score extraction
\* gives a dict or None and stage extraction gives an integer or None.
C2_ParsingNeverRaises ==
  chat =>
    \A r \in Replies :
      /\ extract_scores(r).tag \in {"None", "dict"}
      /\ Len(extract_stage(r)) <= 1
      /\ process_message(r).result.exc = "none"

\* C3: a turn whose reply carries a malformed score block leaves the stage
\* and all scores at their pre-turn values and raises nothing.
C3_MalformedBlockChangesNothing ==
  chat =>
    \A r \in Replies :
      Malformed(r.block) =>
        \A after \in {process_message(r)} :
          /\ after.current_stage = current_stage
          /\ after.scores = scores
          /\ after.result.exc = "none"

\* C4: after a turn whose reply carries the marker <STAGE>N</STAGE> the
\* current stage is N, whatever the stage and the scores were before.
C4_MarkerIsAdopted ==
  chat =>
    \A r \in Replies :
      HasMarker(r) => process_message(r).current_stage = DigitsToInt(r.marker)

\* C5: on a turn whose reply carries no marker the stage advances by exactly
\* one if the score of the current stage's category, after the turn's score
\* block, is > 0, and stays where it is otherwise.
C5_HeuristicAdvancesByOne ==
  chat =>
    \A r \in Replies :
      ~HasMarker(r) =>
        \A after \in {process_message(r)} :
          after.current_stage =
            IF /\ current_stage \in 1..3
               /\ after.scores[StageCategory(current_stage)] > 0
              THEN current_stage + 1
              ELSE current_stage

\* C6: a turn whose reply carries no marker never lowers the stage and never
\* skips one: the stage after it is the stage before or the next one; a turn
\* that lowers the stage or skips one carries a marker.
C6_NoMarkerNoRegressionNoSkip ==
  chat =>
    \A r \in Replies :
      \A after \in {process_message(r).current_stage} :
        /\ ~HasMarker(r) => after \in {current_stage, current_stage + 1}
        /\ (after < current_stage \/ after > current_stage + 1) => HasMarker(r)

\* at stage 2 with every category scored, a reply without a marker moves the
\* session to stage 3 and no further
C6_Witness ==
  /\ chat
  /\ current_stage = 2
  /\ \A c \in Categories : scores[c] > 0
  /\ \E r \in Replies : ~HasMarker(r) /\ process_message(r).current_stage = 3

\* C7: the current stage is 1 until the first turn (on a new session and
\* after start_interview) and is always one of 1, 2, 3, 4.
C7_StageIsOneOfFour ==
  /\ last_response = << >> => current_stage = 1
  /\ current_stage \in {1, 2, 3, 4}

\* C8: once the current stage is 4 no turn changes it, whatever the reply.
C8_FinishedIsTerminal ==
  (chat /\ current_stage = 4) =>
    \A r \in Replies : process_message(r).current_stage = 4

\* C8 as amended: once the current stage is 4, a turn changes it only if its
\* reply carries an explicit marker N, and then the new stage is N; a turn
\* whose reply carries no marker leaves it at 4.
C8_FinishedLeftOnlyByMarker ==
  (chat /\ current_stage = 4) =>
    \A r \in Replies :
      \A after \in {process_message(r).current_stage} :
        after # 4 => (HasMarker(r) /\ after = DigitsToInt(r.marker))

\* the session finished with a soft-skills score; a reply without a marker
\* keeps it finished and a reply with marker 2 reopens it at stage 2
C8_Witness ==
  /\ chat
  /\ current_stage = 4
  /\ scores["soft_skills"] > 0
  /\ last_response # << >>
  /\ \E r \in Replies : ~HasMarker(r) /\ process_message(r).current_stage = 4
  /\ \E r \in Replies : HasMarker(r) /\ process_message(r).current_stage = 2

\* C9: after start_interview, get_final_score answers "Interview not
\* completed" exactly when some enabled category has a score <= 0 and yields
\* a result otherwise; the scores of the disabled categories do not matter.
C9_ReadinessOverEnabledCategories ==
  interview_data # << >> =>
    /\ get_final_score.error = "Interview not completed"
         <=> \E c \in Categories :
               FocusFlag(interview_data[1], c) /\ scores[c] <= 0
    /\ get_final_score.error = "" <=> get_final_score.overall # << >>
    /\ get_final_score.error \in {"", "Interview not completed"}
    /\ \A sc \in ScoreStores :
         (\A c \in Categories :
            FocusFlag(interview_data[1], c) => sc[c] = scores[c])
           => final_score(sc, interview_data).error = get_final_score.error

\* only resume_fit is enabled and scored, hard_skills is disabled with no
\* score, and get_final_score yields a result
C9_Witness ==
  /\ interview_data # << >>
  /\ interview_data[1].interview_focus_resume_fit
  /\ ~interview_data[1].interview_focus_hard_skills
  /\ scores["resume_fit"] > 0
  /\ scores["hard_skills"] = 0
  /\ get_final_score.error = ""

WeightedOverall(sc, enabled) ==
  LET w == SumOver(weights, enabled)
      ws == SumOver([c \in Categories |-> weights[c] * sc[c]], enabled)
  IN  (20 * ws + w) \div (2 * w)

\* C11: when readiness holds the overall score is the weighted sum of the
\* enabled categories' scores, the weights 0.3 / 0.4 / 0.3 renormalized over
\* the enabled categories, rounded to one decimal.
C11_OverallIsRenormalizedWeightedSum ==
  (Ready /\ enabled_stages(interview_data[1]) # {}) =>
    get_final_score.overall =
      <<WeightedOverall(scores, enabled_stages(interview_data[1]))>>

\* the reply of scenario A: <SCORES>{"resume_fit": 85}</SCORES><STAGE>4</STAGE>
ScenarioAReply ==
  [block |-> [kind |-> "object", fields |-> [k \in {"resume_fit"} |-> Num(85)]],
   marker |-> <<4>>, eval |-> NoEval]

C13_DisabledCategoriesContributeNothing ==
  interview_data # << >> =>
    \A sc \in ScoreStores :
      (\A c \in enabled_stages(interview_data[1]) : sc[c] = scores[c]) =>
        /\ final_score(sc, interview_data).error = get_final_score.error
        /\ final_score(sc, interview_data).overall = get_final_score.overall

\* hard_skills is disabled and holds 100, resume_fit is enabled and holds 85,
\* and the overall score is 85.0
C13_Witness ==
  /\ interview_data # << >>
  /\ enabled_stages(interview_data[1]) = {"resume_fit", "soft_skills"}
  /\ scores["resume_fit"] = 85
  /\ scores["soft_skills"] = 85
  /\ scores["hard_skills"] = 100
  /\ get_final_score.overall = <<850>>

\* C14: the stored score of a category that is not enabled for the vacancy is
\* 0, and the breakdown of the final evaluation reports 0 for it.
C14_DisabledScoreIsZero ==
  interview_data # << >> =>
    \A c \in Categories \ enabled_stages(interview_data[1]) :
      /\ scores[c] = 0
      /\ c \in DOMAIN generate_final_evaluation.breakdown =>
           generate_final_evaluation.breakdown[c] = 0

\* C15: an evaluation returned by generate_final_evaluation has an overall
\* score in [0,100] and breakdown values in [0,100].
C15_EvaluationWithinBounds ==
  generate_final_evaluation.overall # << >> =>
    /\ generate_final_evaluation.overall[1] \in 0..1000
    /\ \A k \in DOMAIN generate_final_evaluation.breakdown :
         generate_final_evaluation.breakdown[k] \in 0..100

\* C16: when the send of a turn raises, the stage, every score and the stored
\* last reply are what they were before the turn, and the caller gets the
\* exception.
C16_OracleFailureChangesNothing ==
  chat =>
    \A after \in {process_message_oracle_fails} :
      /\ after.result.exc # "none"
      /\ after.current_stage = current_stage
      /\ after.scores = scores
      /\ after.last_response = last_response

\* a session at stage 2 with a score and a stored reply, where a send fails
C16_Witness ==
  /\ chat
  /\ current_stage = 2
  /\ scores["resume_fit"] = 85
  /\ last_response # << >>
  /\ process_message_oracle_fails.result.exc = "OracleError"

\* C17: when the oracle step of a candidate turn fails, the committed history
\* holds no row of the failed message, the row of the interview is unchanged
\* and the candidate is sent an error.
C17_FailedTurnIsNotApplied ==
  \A w \in Sockets :
    (endpoints[w].pc = "open" /\ Room(2)) =>
      \A after \in {handle_failed_turn(w)} :
        /\ after.messages = messages
        /\ after.interview = interview
        /\ after.sent = "error"

\* C18: at most one candidate message of the interview is being handled at
\* any time, and the connections to the interview act on one session state.
C18_OneInFlightPerInterview ==
  /\ Cardinality(InFlight) <= 1
  /\ \A w1, w2 \in Sockets :
       (endpoints[w1].pc # "closed" /\ endpoints[w2].pc # "closed") =>
         endpoints[w1].ai = endpoints[w2].ai

C20_CompleteIsFrozen ==
  interview.status = "completed" =>
    \A w \in Sockets :
      endpoints[w].pc = "open" =>
        \A r \in AnswerReplies, a \in Responses :
          \A after \in {handle_answer(w, r, a)} :
            /\ after.endpoint.ai = endpoints[w].ai
            /\ after.interview.current_stage = interview.current_stage
            /\ after.interview.final_score = interview.final_score

\* C21: when the connection of a session ends while its oracle call is
\* outstanding, the response that arrives is discarded: the session's scores
\* and stage and the persisted interview and messages stay as they were.
C21_AbandonedResponseIsDiscarded ==
  \A w \in Sockets :
    endpoints[w].pc = "abandoned" =>
      \A r \in AnswerReplies, a \in Responses, send_passes \in BOOLEAN :
        process_answer(endpoints[w].ai, r).exc = "none" =>
          \A after \in {handle_answer_abandoned(w, r, a, send_passes)} :
            /\ after.ai = endpoints[w].ai
            /\ after.interview = interview
            /\ after.messages = messages

C24_ConfidenceIsOneConstant ==
  \A last \in {<< >>} \cup {<<e>> : e \in EvalTexts} :
    \A other \in {final_evaluation(last, scores, interview_data)} :
      (generate_final_evaluation.overall # << >> /\ other.overall # << >>) =>
        other.ai_confidence = generate_final_evaluation.ai_confidence

\* C25: the score map always has exactly the keys resume_fit, hard_skills
\* and soft_skills, and so does the breakdown computed from it.
C25_ScoreMapHasThreeKeys ==
  /\ DOMAIN scores = Categories
  /\ get_final_score.overall # << >> =>
       DOMAIN get_final_score.breakdown = Categories

\* C26: without markers the session still makes progress.  At stage s of 1..3
\* a reply without marker that scores the category of s with a number > 0
\* moves the stage to s + 1, so three such turns lead from 1 to 4; and under
\* a fair oracle a started session reaches stage 4.
C26_ProgressWithoutMarkers ==
  /\ [](chat /\ current_stage \in 1..3 =>
          \A r \in ProgressReplies(current_stage) :
            \A after \in {process_message(r)} :
              /\ after.result.exc = "none"
              /\ after.current_stage = current_stage + 1
              /\ after.scores[StageCategory(current_stage)] > 0)
  /\ (chat ~> current_stage = 4)

\* stage 4 reached by turns without markers, each category scored
C26_Witness ==
  /\ chat
  /\ current_stage = 4
  /\ \A c \in Categories : scores[c] > 0

\* C27: readiness is stable: once every enabled category has a score > 0,
\* it has one after any further turn, and get_final_score keeps returning
\* a result.
C27_ReadinessIsStable ==
  (chat /\ Ready) =>
    \A r \in Replies :
      \A after \in {process_message(r)} :
        /\ \A c \in Categories :
             FocusFlag(interview_data[1], c) => after.scores[c] > 0
        /\ final_score(after.scores, interview_data).overall # << >>

C29_SaveIsAllOrNothing ==
  \A b \in Breakdowns, h \in Histories, found \in BOOLEAN,
     foreign_keys \in BOOLEAN :
    \A after \in {save_complete_evaluation(evaluation_store, b, h, found,
                                             foreign_keys)} :
      ~after.success => after.store = evaluation_store

=============================================================================
